---------------------------- MODULE Spec2Model ----------------------------
(***************************************************************************)
(* A model of stackbuilder's Build Assembly Engine: the combination        *)
(* planner (build.rs), the deep merge engine and layer resolver            *)
(* (merger.rs) and the env file reconciler (build_cleaner.rs).             *)
(*                                                                         *)
(* Strings are modelled as sequences of tokens.  The token "/" is the path *)
(* separator and "_" is the underscore; every other token is a run of      *)
(* characters that contains neither.  String concatenation is \o, so       *)
(* format!("{}/{}", env, ext) is env \o <<"/">> \o ext, and a conversion   *)
(* such as Path::parent or replace('/', "_") is computed on the tokens.    *)
(* An Option<T> is a set with at most one element.                         *)
(***************************************************************************)
EXTENDS Integers, Sequences, FiniteSets, TLC

VARIABLES
    config,        \* the loaded configuration (config::Config, BuildExecutor)
    pc,            \* position of the run inside execute_build / the harness
    combinations,  \* Vec<BuildCombination> returned by the planner
    planErr,       \* Option<ValidationError::ComboNotFound>
    idx,           \* index of the next combination in create_build_structure
    files,         \* build root: relative file path -> content
    dirs,          \* build root: set of existing directories (<<>> is the root)
    held,          \* BuildCleaner.preserved_files: Option<Vec<PreservedEnvFile>>
    scanned,       \* history: the files collected by scan_env_files
    backup,        \* Option<backup directory [manifest, contentFiles]>
    restoreLog,    \* original path -> RestoreResult of restore_single_file
    written,       \* manifest path written for each processed combination
    components,    \* the source tree: layer file path -> layer file state
    merger,        \* ComposeMerger {base_path, environments_path, extensions_paths}
    mergeIn,       \* inputs of the merge under check
    mergeOut       \* Option<result of the merge under check>

vars == <<config, pc, combinations, planErr, idx, files, dirs, held, scanned,
          backup, restoreLog, written, components, merger, mergeIn, mergeOut>>

(***************************************************************************)
(* Bounds of the model.                                                    *)
(***************************************************************************)
MaxEnvs == 2
MaxExts == 1
MaxEnvExts == 1
MaxCombos == 2
MaxHeld == 2
MaxSeqLen == 1
MaxDepth == 2
MaxDocSize == 4

(***************************************************************************)
(* Strings and paths.                                                      *)
(***************************************************************************)
EmptyStr == <<>>
Slash == <<"/">>
Underscore == <<"_">>
Name(tok) == <<tok>>

None == {}
Some(x) == {x}
Unwrap(opt) == CHOOSE x \in opt : TRUE
UnwrapOr(opt, dflt) == IF opt = {} THEN dflt ELSE Unwrap(opt)

RECURSIVE SplitFrom(_, _, _, _)
SplitFrom(s, i, cur, acc) ==
    IF i > Len(s) THEN (IF cur = <<>> THEN acc ELSE Append(acc, cur))
    ELSE IF s[i] = "/"
         THEN SplitFrom(s, i + 1, <<>>, IF cur = <<>> THEN acc ELSE Append(acc, cur))
         ELSE SplitFrom(s, i + 1, Append(cur, s[i]), acc)

\* Path::components for a relative path: the parts between separators
Components(s) == SplitFrom(s, 1, <<>>, <<>>)

RECURSIVE JoinFrom(_, _)
JoinFrom(parts, i) ==
    IF i > Len(parts) THEN <<>>
    ELSE IF i = Len(parts) THEN parts[i]
    ELSE parts[i] \o Slash \o JoinFrom(parts, i + 1)

\* the string of a relative path with the given components
JoinComponents(parts) == JoinFrom(parts, 1)

\* PathBuf::join for relative paths
PathJoin(a, b) == IF a = EmptyStr THEN b ELSE a \o Slash \o b

\* file.original_path.parent() rendered by to_string_lossy; None gives String::new()
ParentStr(p) ==
    LET c == Components(p)
    IN IF Len(c) = 0 THEN EmptyStr ELSE JoinComponents(SubSeq(c, 1, Len(c) - 1))

\* file.original_path.file_name().unwrap_or_default()
FileNameStr(p) ==
    LET c == Components(p)
    IN IF Len(c) = 0 THEN EmptyStr ELSE c[Len(c)]

\* str::contains
Contains(s, pat) ==
    \E i \in 1..(Len(s) - Len(pat) + 1) : SubSeq(s, i, i + Len(pat) - 1) = pat

RECURSIVE SeqsUpTo(_, _)
SeqsUpTo(S, n) ==
    IF n = 0 THEN {<<>>}
    ELSE LET shorter == SeqsUpTo(S, n - 1)
         IN shorter \cup {Append(s, x) : s \in {t \in shorter : Len(t) = n - 1}, x \in S}

RECURSIVE Flatten(_)
Flatten(ss) == IF ss = <<>> THEN <<>> ELSE Head(ss) \o Flatten(Tail(ss))

RECURSIVE SumSeq(_)
SumSeq(ns) == IF ns = <<>> THEN 0 ELSE Head(ns) + SumSeq(Tail(ns))

SeqContains(s, x) == \E i \in 1..Len(s) : s[i] = x
Range(s) == {s[i] : i \in 1..Len(s)}


(***************************************************************************)
(* Combination planner (build.rs).                                         *)
(*                                                                         *)
(* A configuration is a record                                             *)
(*   environments          config::get_environments_list                   *)
(*   extensions            build.extensions (None is the empty list)       *)
(*   combos                build.combos, a map name -> extension list      *)
(*   comboKeys             the order in which the HashMap yields its keys  *)
(*   envConfigs            targets / environments_config: env -> override  *)
(*   skip_base_generation  the global flag                                 *)
(* together with the preservation inputs used by the reconciler.           *)
(***************************************************************************)
BuildCombination(env, exts, comboNames, out) ==
    [environment |-> env, extensions |-> exts, combo_names |-> comboNames,
     output_dir |-> out]

NoCombination == BuildCombination(None, <<>>, <<>>, EmptyStr)

\* a planned combination, or the combo name whose lookup failed
Planned(c) == [ok |-> TRUE, c |-> c, name |-> EmptyStr]
NotFound(n) == [ok |-> FALSE, c |-> NoCombination, name |-> n]

HasEnvConfig(cfg, env) == env \in DOMAIN cfg.envConfigs

EnvExtensions(cfg, env) ==
    IF HasEnvConfig(cfg, env) THEN cfg.envConfigs[env].extensions ELSE cfg.extensions

EnvComboNames(cfg, env) ==
    IF HasEnvConfig(cfg, env) THEN cfg.envConfigs[env].combos ELSE cfg.comboKeys

EnvSkipBase(cfg, env) ==
    IF HasEnvConfig(cfg, env)
    THEN UnwrapOr(cfg.envConfigs[env].skip_base_generation, cfg.skip_base_generation)
    ELSE cfg.skip_base_generation

TotalVariants(cfg) ==
    IF cfg.environments = <<>>
    THEN Len(cfg.extensions) + Len(cfg.comboKeys)
    ELSE SumSeq([i \in 1..Len(cfg.environments) |->
                    IF HasEnvConfig(cfg, cfg.environments[i])
                    THEN Len(cfg.envConfigs[cfg.environments[i]].extensions)
                         + Len(cfg.envConfigs[cfg.environments[i]].combos)
                    ELSE Len(cfg.extensions) + Len(cfg.comboKeys)])

\* ValidationError::ComboNotFound {combo_name, available_combos}
ComboNotFound(cfg, combo_name) ==
    [combo_name |-> combo_name, available_combos |-> cfg.comboKeys]

\* config.build.combos.get(combo_name).ok_or_else(ComboNotFound)? and the push
ComboCombination(cfg, env, combo_name, out) ==
    IF combo_name \in DOMAIN cfg.combos
    THEN <<Planned(BuildCombination(Some(env), cfg.combos[combo_name],
                                    <<combo_name>>, out))>>
    ELSE <<NotFound(combo_name)>>

\* the subfolder combinations of one environment; prefix is "" or "<env>/"
SubfolderCombinations(cfg, env, prefix) ==
    LET ex == EnvExtensions(cfg, env)
        cn == EnvComboNames(cfg, env)
    IN  (IF ~EnvSkipBase(cfg, env)
         THEN <<Planned(BuildCombination(Some(env), <<>>, <<>>, prefix \o Name("base")))>>
         ELSE <<>>)
        \o [i \in 1..Len(ex) |->
               Planned(BuildCombination(Some(env), <<ex[i]>>, <<>>, prefix \o ex[i]))]
        \o Flatten([i \in 1..Len(cn) |->
               ComboCombination(cfg, env, cn[i], prefix \o cn[i])])

\* the single variant of one environment when only a direct extension counts
CollapsedCombinationExtensionOnly(cfg, env, out) ==
    IF Len(EnvExtensions(cfg, env)) = 1
    THEN <<Planned(BuildCombination(Some(env), EnvExtensions(cfg, env), <<>>, out))>>
    ELSE <<>>

\* the single variant of one environment, written to out
CollapsedCombination(cfg, env, out) ==
    LET ex == EnvExtensions(cfg, env)
        cn == EnvComboNames(cfg, env)
    IN  IF Len(ex) = 1
        THEN <<Planned(BuildCombination(Some(env), ex, <<>>, out))>>
        ELSE IF Len(cn) = 1
        THEN ComboCombination(cfg, env, cn[1], out)
        ELSE <<>>

ShouldCreateSubfolders(cfg, env) ==
    Len(EnvExtensions(cfg, env)) + Len(EnvComboNames(cfg, env)) > 1
    \/ ~EnvSkipBase(cfg, env)

\* the single environment arm with every output_dir under "<env>/"
SingleEnvironmentArmPrefixed(cfg) ==
    SubfolderCombinations(cfg, cfg.environments[1], cfg.environments[1] \o Slash)

\* the single environment arm collapsing into the folder of the environment
SingleEnvironmentArmInEnvFolder(cfg) ==
    IF ShouldCreateSubfolders(cfg, cfg.environments[1])
    THEN SubfolderCombinations(cfg, cfg.environments[1], EmptyStr)
    ELSE CollapsedCombination(cfg, cfg.environments[1], cfg.environments[1])

\* the environments-only arm with a base subfolder per environment
EnvironmentsOnlyArmBaseSuffix(cfg) ==
    [i \in 1..Len(cfg.environments) |->
        Planned(BuildCombination(Some(cfg.environments[i]), <<>>, <<>>,
                                 cfg.environments[i] \o Slash \o Name("base")))]

\* the per-environment arm that never collapses an environment
PerEnvironmentArmNoCollapse(cfg) ==
    Flatten([i \in 1..Len(cfg.environments) |->
                SubfolderCombinations(cfg, cfg.environments[i],
                                      cfg.environments[i] \o Slash)])

\* match arm (1, _) if total_variants > 0
SingleEnvironmentArm(cfg) ==
    LET env == cfg.environments[1]
    IN  IF ShouldCreateSubfolders(cfg, env)
        THEN SubfolderCombinations(cfg, env, EmptyStr)
        ELSE CollapsedCombination(cfg, env, EmptyStr)

\* match arm (_, 0) if num_envs >= 1
EnvironmentsOnlyArm(cfg) ==
    [i \in 1..Len(cfg.environments) |->
        Planned(BuildCombination(Some(cfg.environments[i]), <<>>, <<>>,
                                 cfg.environments[i]))]

\* match arm _ : each environment handled individually
PerEnvironmentArm(cfg) ==
    LET num_envs == Len(cfg.environments)
        ForEnv(env) ==
            IF num_envs > 1
            THEN IF ShouldCreateSubfolders(cfg, env)
                 THEN SubfolderCombinations(cfg, env, env \o Slash)
                 ELSE CollapsedCombination(cfg, env, env)
            ELSE IF Len(EnvExtensions(cfg, env)) + Len(EnvComboNames(cfg, env)) = 0
                 THEN <<Planned(BuildCombination(Some(env), <<>>, <<>>, env))>>
                 ELSE <<>>
    IN  Flatten([i \in 1..num_envs |-> ForEnv(cfg.environments[i])])

\* the extension-only combinations, each in the folder of its name
ExtensionOnlyCombinationsNamed(cfg) ==
    [i \in 1..Len(cfg.extensions) |->
        Planned(BuildCombination(None, <<cfg.extensions[i]>>, <<>>, cfg.extensions[i]))]
    \o [i \in 1..Len(cfg.comboKeys) |->
        Planned(BuildCombination(None, cfg.combos[cfg.comboKeys[i]],
                                 <<cfg.comboKeys[i]>>, cfg.comboKeys[i]))]

\* the extension-only combinations added when there is no environment
ExtensionOnlyCombinations(cfg) ==
    LET should_create_subfolders == TotalVariants(cfg) > 1
        Out(n) == IF should_create_subfolders THEN n ELSE EmptyStr
    IN  [i \in 1..Len(cfg.extensions) |->
            Planned(BuildCombination(None, <<cfg.extensions[i]>>, <<>>,
                                     Out(cfg.extensions[i])))]
        \o [i \in 1..Len(cfg.comboKeys) |->
            Planned(BuildCombination(None, cfg.combos[cfg.comboKeys[i]],
                                     <<cfg.comboKeys[i]>>, Out(cfg.comboKeys[i])))]

\* Result<Vec<BuildCombination>>: the first failed lookup aborts the planning
ResolveLegacyCombinationsWithTargets(cfg) ==
    LET num_envs == Len(cfg.environments)
        total_variants == TotalVariants(cfg)
        arm == IF num_envs = 0 /\ total_variants = 0
               THEN <<Planned(BuildCombination(None, <<>>, <<>>, EmptyStr))>>
               ELSE IF num_envs = 1 /\ total_variants > 0
               THEN SingleEnvironmentArm(cfg)
               ELSE IF total_variants = 0 /\ num_envs >= 1
               THEN EnvironmentsOnlyArm(cfg)
               ELSE PerEnvironmentArm(cfg)
        items == arm \o (IF num_envs = 0 THEN ExtensionOnlyCombinations(cfg) ELSE <<>>)
        failed == {i \in 1..Len(items) : ~items[i].ok}
    IN  IF failed = {}
        THEN [ok |-> TRUE, combos |-> [i \in 1..Len(items) |-> items[i].c], err |-> None]
        ELSE [ok |-> FALSE, combos |-> <<>>,
              err |-> Some(ComboNotFound(cfg,
                         items[CHOOSE i \in failed : \A j \in failed : i <= j].name))]

\* determine_build_combinations: an empty plan is an error
DetermineBuildCombinations(cfg) ==
    LET r == ResolveLegacyCombinationsWithTargets(cfg)
    IN  IF r.ok /\ r.combos = <<>>
        THEN [ok |-> FALSE, combos |-> <<>>, err |-> None]
        ELSE r

OutputDirs(combos) == [i \in 1..Len(combos) |-> combos[i].output_dir]

\* validate_build_targets / validate_build_environments: every combo an
\* environment refers to must be registered (the extension directories named by
\* the configuration are taken to exist)
UnknownCombos(cfg) ==
    {n \in UNION {Range(cfg.envConfigs[e].combos) : e \in DOMAIN cfg.envConfigs} :
        n \notin DOMAIN cfg.combos}

(***************************************************************************)
(* The configurations the model is run on.                                 *)
(***************************************************************************)
EnvNames == {Name("dev"), Name("prod")}
ExtNames == {Name("auth"), Name("base")}
ComboPool ==
    (Name("sec") :> <<Name("auth"), Name("guard")>>)
    @@ (Name("auth") :> <<Name("guard")>>)

ComboMaps ==
    {[n \in D |-> ComboPool[n]] :
        D \in {S \in SUBSET (DOMAIN ComboPool) : Cardinality(S) <= MaxCombos}}

KeyOrders(cm) ==
    {s \in SeqsUpTo(DOMAIN cm, Cardinality(DOMAIN cm)) :
        Len(s) = Cardinality(DOMAIN cm) /\ Range(s) = DOMAIN cm}

EnvOverrides ==
    [extensions : SeqsUpTo(ExtNames, MaxEnvExts),
     combos : {<<>>, <<Name("sec")>>},
     skip_base_generation : {None, Some(TRUE), Some(FALSE)}]

EnvConfigMaps(envs) == UNION {[D -> EnvOverrides] : D \in SUBSET Range(envs)}

Config(envs, exts, cm, keys, ec, skip, preserve) ==
    [environments |-> envs, extensions |-> exts, combos |-> cm, comboKeys |-> keys,
     envConfigs |-> ec, skip_base_generation |-> skip,
     preserve_env_files |-> preserve]

NoConfig == Config(<<>>, <<>>, <<>>, <<>>, <<>>, FALSE, FALSE)
\* no backup directory has been created
NoBackup == [created |-> FALSE, manifest |-> None, contentFiles |-> <<>>]
NoMerger == [base_path |-> EmptyStr, environments_path |-> EmptyStr,
             extensions_paths |-> <<>>]

(***************************************************************************)
(* execute_build, up to the planning.                                      *)
(***************************************************************************)
\* a planning that lets every configuration through to the build
PlanWithoutValidation ==
    /\ pc = "start"
    /\ pc' = "planned"
    /\ planErr' = None
    /\ combinations' = DetermineBuildCombinations(config).combos
    /\ UNCHANGED <<config, idx, files, dirs, held, scanned, backup, restoreLog,
                   written, components, merger, mergeIn, mergeOut>>

\* BuildExecutor::new (validation) and determine_build_combinations
Plan ==
    /\ pc = "start"
    /\ LET unknown == UnknownCombos(config)
           r == DetermineBuildCombinations(config)
       IN  IF unknown # {}
           THEN /\ pc' = "failed"
                /\ planErr' = Some(ComboNotFound(config, CHOOSE n \in unknown : TRUE))
                /\ combinations' = <<>>
           ELSE /\ pc' = IF r.ok THEN "planned" ELSE "failed"
                /\ planErr' = r.err
                /\ combinations' = r.combos
    /\ UNCHANGED <<config, idx, files, dirs, held, scanned, backup, restoreLog,
                   written, components, merger, mergeIn, mergeOut>>

InitPlan ==
    /\ \E envs \in SeqsUpTo(EnvNames, MaxEnvs), exts \in SeqsUpTo(ExtNames, MaxExts),
          cm \in ComboMaps, skip \in BOOLEAN :
          \E keys \in KeyOrders(cm), ec \in EnvConfigMaps(envs) :
             config = Config(envs, exts, cm, keys, ec, skip, TRUE)
    /\ pc = "start"
    /\ combinations = <<>>
    /\ planErr = None
    /\ idx = 0
    /\ files = <<>>
    /\ dirs = {}
    /\ held = None
    /\ scanned = {}
    /\ backup = NoBackup
    /\ restoreLog = <<>>
    /\ written = <<>>
    /\ components = <<>>
    /\ merger = NoMerger
    /\ mergeIn = <<>>
    /\ mergeOut = None

SpecPlan == InitPlan /\ [][Plan]_vars

(***************************************************************************)
(* Properties of the planner.                                              *)
(***************************************************************************)
\* C7: the outputDir values of the targets returned by the planner for one
\* invocation are pairwise distinct, for every accepted configuration.
C7_OutputDirsDistinct ==
    pc = "planned" =>
        \A i, j \in 1..Len(combinations) :
            i # j => combinations[i].output_dir # combinations[j].output_dir

(***************************************************************************)
(* Deep merge engine (merger.rs).                                          *)
(*                                                                         *)
(* A serde_yaml Value is a record with a type tag t and one payload field  *)
(* per type: s for a scalar, q for a Sequence, m for a Mapping (a function *)
(* from keys to Values; Mapping equality does not depend on key order).    *)
(***************************************************************************)
Scalar(n) == [t |-> "scalar", s |-> n, q |-> <<>>, m |-> <<>>]
Sequence(q) == [t |-> "seq", s |-> 0, q |-> q, m |-> <<>>]
Mapping(m) == [t |-> "map", s |-> 0, q |-> <<>>, m |-> m]

\* Mapping::insert: an existing key keeps its place and takes the new value
MapInsert(m, k, v) == [x \in (DOMAIN m) \cup {k} |-> IF x = k THEN v ELSE m[x]]

\* a mapping merge that replaces the value of a shared key instead of recursing
MergeYamlValuesShallow(base, override_) ==
    IF base.t = "map" /\ override_.t = "map"
    THEN Mapping([k \in (DOMAIN base.m) \cup (DOMAIN override_.m) |->
                    IF k \in DOMAIN override_.m THEN override_.m[k] ELSE base.m[k]])
    ELSE IF base.t = "seq" /\ override_.t = "seq"
    THEN Sequence(base.q \o override_.q)
    ELSE override_

\* a merge in which the accumulator wins wherever the types call for an override
RECURSIVE MergeYamlValuesFirstWins(_, _)
MergeYamlValuesFirstWins(base, override_) ==
    IF base.t = "map" /\ override_.t = "map"
    THEN Mapping([k \in (DOMAIN base.m) \cup (DOMAIN override_.m) |->
                    IF k \in DOMAIN base.m /\ k \in DOMAIN override_.m
                    THEN MergeYamlValuesFirstWins(base.m[k], override_.m[k])
                    ELSE IF k \in DOMAIN override_.m THEN override_.m[k] ELSE base.m[k]])
    ELSE IF base.t = "seq" /\ override_.t = "seq"
    THEN Sequence(base.q \o override_.q)
    ELSE base

\* a merge in which a sequence is overridden like a scalar
RECURSIVE MergeYamlValuesOverridingSequences(_, _)
MergeYamlValuesOverridingSequences(base, override_) ==
    IF base.t = "map" /\ override_.t = "map"
    THEN Mapping([k \in (DOMAIN base.m) \cup (DOMAIN override_.m) |->
                    IF k \in DOMAIN base.m /\ k \in DOMAIN override_.m
                    THEN MergeYamlValuesOverridingSequences(base.m[k], override_.m[k])
                    ELSE IF k \in DOMAIN override_.m THEN override_.m[k] ELSE base.m[k]])
    ELSE override_

RECURSIVE MergeYamlValues(_, _)
RECURSIVE MergeEntries(_, _, _)

\* for (key, value) in override_map { ... base_map.insert(...) }
MergeEntries(base_map, override_map, keys) ==
    IF keys = {} THEN base_map
    ELSE LET key == CHOOSE k \in keys : TRUE
             value == override_map[key]
             merged == IF key \in DOMAIN base_map
                       THEN MergeYamlValues(base_map[key], value)
                       ELSE value
         IN  MergeEntries(MapInsert(base_map, key, merged), override_map, keys \ {key})

MergeYamlValues(base, override_) ==
    IF base.t = "map" /\ override_.t = "map"
    THEN Mapping(MergeEntries(base.m, override_.m, DOMAIN override_.m))
    ELSE IF base.t = "seq" /\ override_.t = "seq"
    THEN Sequence(base.q \o override_.q)
    ELSE override_

(***************************************************************************)
(* The documents the merge is run on: nesting depth up to MaxDepth, at     *)
(* most MaxDocSize nodes, sequences of up to MaxSeqLen scalars.            *)
(***************************************************************************)
DocKeys == {"services", "volumes"}
Scalars == {Scalar(1), Scalar(2)}
Leaves == Scalars \cup {Sequence(q) : q \in SeqsUpTo(Scalars, MaxSeqLen)}

RECURSIVE DocSize(_)
RECURSIVE SumOver(_, _)
SumOver(f, D) ==
    IF D = {} THEN 0
    ELSE LET x == CHOOSE y \in D : TRUE IN DocSize(f[x]) + SumOver(f, D \ {x})
DocSize(v) ==
    IF v.t = "scalar" THEN 1
    ELSE IF v.t = "seq" THEN 1 + Len(v.q)
    ELSE 1 + SumOver(v.m, DOMAIN v.m)

RECURSIVE DocsOfDepth(_)
DocsOfDepth(d) ==
    IF d = 0 THEN Leaves
    ELSE LET inner == {v \in DocsOfDepth(d - 1) : DocSize(v) < MaxDocSize}
         IN  Leaves \cup {w \in {Mapping(m) : m \in UNION {[D -> inner] : D \in SUBSET DocKeys}} :
                            DocSize(w) <= MaxDocSize}

Docs == DocsOfDepth(MaxDepth)

\* one application of merge_yaml_values to the pair under check
Merge ==
    /\ pc = "merge"
    /\ mergeOut' = Some(MergeYamlValues(mergeIn[1], mergeIn[2]))
    /\ pc' = "merged"
    /\ UNCHANGED <<config, combinations, planErr, idx, files, dirs, held, scanned,
                   backup, restoreLog, written, components, merger, mergeIn>>

InitMerge ==
    /\ mergeIn \in Docs \X Docs
    /\ mergeOut = None
    /\ pc = "merge"
    /\ config = NoConfig
    /\ combinations = <<>>
    /\ planErr = None
    /\ idx = 0
    /\ files = <<>>
    /\ dirs = {}
    /\ held = None
    /\ scanned = {}
    /\ backup = NoBackup
    /\ restoreLog = <<>>
    /\ written = <<>>
    /\ components = <<>>
    /\ merger = NoMerger

SpecMerge == InitMerge /\ [][Merge]_vars

(***************************************************************************)
(* Properties of merge_yaml_values.                                        *)
(***************************************************************************)
\* the four-case table of the merge contract, stated on its own
RECURSIVE FourCase(_, _)
FourCase(a, b) ==
    IF a.t = "map" /\ b.t = "map"
    THEN Mapping([k \in (DOMAIN a.m) \cup (DOMAIN b.m) |->
                    IF k \in DOMAIN a.m /\ k \in DOMAIN b.m THEN FourCase(a.m[k], b.m[k])
                    ELSE IF k \in DOMAIN b.m THEN b.m[k]
                    ELSE a.m[k]])
    ELSE IF a.t = "seq" /\ b.t = "seq"
    THEN Sequence([i \in 1..(Len(a.q) + Len(b.q)) |->
                    IF i <= Len(a.q) THEN a.q[i] ELSE b.q[i - Len(a.q)]])
    ELSE b

\* C10: merge_yaml_values(accumulator, increment) equals the four-case reference
\* at every nesting depth: mappings merge key-wise (recursing on shared keys,
\* never removing an accumulator key), sequences concatenate without
\* deduplication, every other pairing yields the increment.
C10_MergeIsFourCase ==
    pc = "merged" =>
        LET acc == mergeIn[1]
            inc == mergeIn[2]
            out == Unwrap(mergeOut)
        IN  /\ out = FourCase(acc, inc)
            /\ (acc.t = "map" /\ inc.t = "map") => (DOMAIN acc.m) \subseteq (DOMAIN out.m)
            /\ (acc.t = "seq" /\ inc.t = "seq") => Len(out.q) = Len(acc.q) + Len(inc.q)

\* a merge that recursed below the top level: a shared key holding a mapping on
\* both sides, whose own shared key holds two sequences that were concatenated
C10_Witness ==
    /\ pc = "merged"
    /\ mergeIn[1].t = "map" /\ mergeIn[2].t = "map"
    /\ \E k \in (DOMAIN mergeIn[1].m) \cap (DOMAIN mergeIn[2].m) :
          /\ mergeIn[1].m[k].t = "map" /\ mergeIn[2].m[k].t = "map"
          /\ \E j \in (DOMAIN mergeIn[1].m[k].m) \cap (DOMAIN mergeIn[2].m[k].m) :
                /\ mergeIn[1].m[k].m[j].t = "seq" /\ mergeIn[2].m[k].m[j].t = "seq"
                /\ Len(Unwrap(mergeOut).m[k].m[j].q) = 2

(***************************************************************************)
(* Layer resolver and merge_compose_files (merger.rs).                     *)
(*                                                                         *)
(* The source tree maps the path of each existing layer file to its        *)
(* content: text that does not parse, the parsed document, or (for a file  *)
(* that is not a manifest) its raw text.  A path outside its domain is a   *)
(* missing file.                                                           *)
(***************************************************************************)
ComposeFileName == Name("docker-compose.yml")
Unparsable == [parsed |-> FALSE, doc |-> Scalar(0), text |-> ""]
Parsed(v) == [parsed |-> TRUE, doc |-> v, text |-> ""]
RawText(x) == [parsed |-> FALSE, doc |-> Scalar(0), text |-> x]

MergeOk(v, n, skipped) ==
    [ok |-> TRUE, value |-> v, err |-> "", loaded |-> n, skipped |-> skipped]
MergeErr(e, n, skipped) ==
    [ok |-> FALSE, value |-> Scalar(0), err |-> e, loaded |-> n, skipped |-> skipped]

\* load_compose_file: read, parse, then require a mapping with a services key
LoadComposeFile(tree, file_path) ==
    IF file_path \notin DOMAIN tree THEN MergeErr("FileReadFailed", 0, <<>>)
    ELSE IF ~tree[file_path].parsed THEN MergeErr("ParseError", 0, <<>>)
    ELSE IF tree[file_path].doc.t # "map" THEN MergeErr("InvalidComposeFormat", 0, <<>>)
    ELSE IF "services" \notin DOMAIN tree[file_path].doc.m
         THEN MergeErr("InvalidComposeFormat", 0, <<>>)
    ELSE MergeOk(tree[file_path].doc, 1, <<>>)

BaseFile(mgr) == PathJoin(mgr.base_path, ComposeFileName)
EnvFile(mgr, env) == PathJoin(PathJoin(mgr.environments_path, env), ComposeFileName)
ExtFile(ext_dir, ext) == PathJoin(PathJoin(ext_dir, ext), ComposeFileName)

\* the first extension directory that holds the extension's file, if any
RECURSIVE FindExtension(_, _, _, _)
FindExtension(tree, dirsList, ext, i) ==
    IF i > Len(dirsList) THEN <<>>
    ELSE IF ExtFile(dirsList[i], ext) \in DOMAIN tree THEN <<ExtFile(dirsList[i], ext)>>
    ELSE FindExtension(tree, dirsList, ext, i + 1)

\* resolve_merge_order: base, then the environment, then the extensions found
ResolveMergeOrder(tree, mgr, environment, extensions) ==
    <<BaseFile(mgr)>>
    \o (IF environment = None THEN <<>> ELSE <<EnvFile(mgr, Unwrap(environment))>>)
    \o Flatten([i \in 1..Len(extensions) |->
                   FindExtension(tree, mgr.extensions_paths, extensions[i], 1)])

\* the test that tells the base file from the other layers
IsBasePath(file_path) == Contains(file_path, <<"/", "base", "/">>)

\* the loop of merge_compose_files over the resolved file paths
RECURSIVE MergeFiles(_, _, _, _, _, _)
MergeFiles(tree, file_paths, i, merged, processed_files, skipped) ==
    IF i > Len(file_paths)
    THEN IF processed_files = 0
         THEN MergeErr("NoValidFiles", 0, skipped)
         ELSE IF merged = None THEN MergeErr("MergeFailed", processed_files, skipped)
         ELSE MergeOk(Unwrap(merged), processed_files, skipped)
    ELSE LET r == LoadComposeFile(tree, file_paths[i])
         IN  IF r.ok
             THEN MergeFiles(tree, file_paths, i + 1,
                             Some(IF merged = None THEN r.value
                                  ELSE MergeYamlValues(Unwrap(merged), r.value)),
                             processed_files + 1, skipped)
             ELSE IF IsBasePath(file_paths[i])
             THEN MergeErr(r.err, processed_files, skipped)
             ELSE MergeFiles(tree, file_paths, i + 1, merged, processed_files,
                             Append(skipped, file_paths[i]))

MergeComposeFiles(tree, mgr, environment, extensions) ==
    MergeFiles(tree, ResolveMergeOrder(tree, mgr, environment, extensions), 1,
               None, 0, <<>>)

(***************************************************************************)
(* The source trees and root paths merge_compose_files is run on.          *)
(***************************************************************************)
ComponentsDir == <<"/", "c">>
BasePaths == {PathJoin(ComponentsDir, Name("base")), PathJoin(ComponentsDir, Name("core"))}
EnvironmentsPath == PathJoin(ComponentsDir, Name("environments"))
ExtensionsPathLists ==
    {<<PathJoin(ComponentsDir, Name("extensions"))>>,
     <<PathJoin(ComponentsDir, Name("extensions")), PathJoin(ComponentsDir, Name("extra"))>>}
LayerEnvNames == {Name("dev"), Name("base")}

ValidDocs ==
    {Mapping(("services" :> Scalar(n)) @@ ("volumes" :> Sequence(<<Scalar(n)>>))) : n \in {1, 2}}
BaseContents ==
    {Unparsable, Parsed(Scalar(1)), Parsed(Mapping("volumes" :> Scalar(1)))}
    \cup {Parsed(v) : v \in ValidDocs}
LayerContents == {Unparsable} \cup {Parsed(v) : v \in ValidDocs}

\* the layer files a target can read
LayerFiles(mgr, environment, extensions) ==
    (IF environment = None THEN {} ELSE {EnvFile(mgr, Unwrap(environment))})
    \cup {ExtFile(mgr.extensions_paths[i], extensions[j]) :
             i \in 1..Len(mgr.extensions_paths), j \in 1..Len(extensions)}

SourceTrees(mgr, environment, extensions) ==
    {b @@ l :
        b \in {<<>>} \cup {BaseFile(mgr) :> c : c \in BaseContents},
        l \in UNION {[D -> LayerContents] :
                        D \in SUBSET LayerFiles(mgr, environment, extensions)}}

\* one call of merge_compose_files for the target under check
ComposeMerge ==
    /\ pc = "compose"
    /\ mergeOut' = Some(MergeComposeFiles(components, merger, mergeIn.environment,
                                          mergeIn.extensions))
    /\ pc' = "composed"
    /\ UNCHANGED <<config, combinations, planErr, idx, files, dirs, held, scanned,
                   backup, restoreLog, written, components, merger, mergeIn>>

InitCompose ==
    /\ \E bp \in BasePaths, eps \in ExtensionsPathLists :
          merger = [base_path |-> bp, environments_path |-> EnvironmentsPath,
                    extensions_paths |-> eps]
    /\ \E env \in {None} \cup {Some(e) : e \in LayerEnvNames},
          exts \in SeqsUpTo(ExtNames, MaxExts) :
          mergeIn = [environment |-> env, extensions |-> exts]
    /\ components \in SourceTrees(merger, mergeIn.environment, mergeIn.extensions)
    /\ mergeOut = None
    /\ pc = "compose"
    /\ config = NoConfig
    /\ combinations = <<>>
    /\ planErr = None
    /\ idx = 0
    /\ files = <<>>
    /\ dirs = {}
    /\ held = None
    /\ scanned = {}
    /\ backup = NoBackup
    /\ restoreLog = <<>>
    /\ written = <<>>

SpecCompose == InitCompose /\ [][ComposeMerge]_vars

(***************************************************************************)
(* Properties of merge_compose_files.                                      *)
(***************************************************************************)
\* C8: whatever the configured root paths are, if the base layer's file is
\* missing, cannot be parsed, is not a mapping or lacks the services field, the
\* merge for that target returns an error: it never proceeds with only non-base
\* layers.
C8_BadBaseIsFatal ==
    pc = "composed" =>
        (~LoadComposeFile(components, BaseFile(merger)).ok => ~Unwrap(mergeOut).ok)

\* merge_compose_files over the resolved file list without its k-th file
MergeWithoutLayer(k) ==
    LET paths == ResolveMergeOrder(components, merger, mergeIn.environment,
                                   mergeIn.extensions)
    IN  MergeFiles(components,
                   SubSeq(paths, 1, k - 1) \o SubSeq(paths, k + 1, Len(paths)),
                   1, None, 0, <<>>)

\* C9: whatever the names and paths of the environment and extension layers
\* are, a non-base layer whose file is missing or invalid is only a warning: the
\* merge gives what it gives with that layer left out of the file list.
C9_BadLayerIsWarning ==
    pc = "composed" =>
        LET paths == ResolveMergeOrder(components, merger, mergeIn.environment,
                                       mergeIn.extensions)
        IN  \A k \in 2..Len(paths) :
                ~LoadComposeFile(components, paths[k]).ok =>
                    /\ Unwrap(mergeOut).ok = MergeWithoutLayer(k).ok
                    /\ Unwrap(mergeOut).value = MergeWithoutLayer(k).value

(***************************************************************************)
(* Env file reconciler (build_cleaner.rs).                                 *)
(*                                                                         *)
(* The build root is the pair (files, dirs): files maps a relative path to *)
(* the file's content, dirs is the set of existing directories, the empty  *)
(* string being the build root itself.  The backup directory lies outside  *)
(* the build root.                                                         *)
(***************************************************************************)
Text(x) == [text |-> x, doc |-> Scalar(0)]
Manifest(v) == [text |-> "yaml", doc |-> v]

EnvFilePatterns == {Name(".env")}

\* is_env_file: the file name is exactly one of the patterns
IsEnvFile(path) == FileNameStr(path) \in EnvFilePatterns

\* analyze_env_file_path: (environment, extensions) read off the directories
AnalyzeEnvFilePath(path) ==
    LET c == Components(path)
        mid == IF Len(c) >= 2 THEN SubSeq(c, 2, Len(c) - 1) ELSE <<>>
    IN  [environment |-> IF Len(c) >= 2 THEN Some(c[1]) ELSE None,
         extensions |-> Flatten([i \in 1..Len(mid) |->
                            IF mid[i] # Name("base") THEN <<mid[i]>> ELSE <<>>])]

PreservedEnvFile(path, content) ==
    [original_path |-> path, content |-> content,
     environment |-> AnalyzeEnvFilePath(path).environment,
     extensions |-> AnalyzeEnvFilePath(path).extensions]

\* scan_env_files: every override file under the build root
ScanEnvFiles(fs) == {PreservedEnvFile(p, fs[p]) : p \in {q \in DOMAIN fs : IsEnvFile(q)}}

\* the orders in which read_dir can yield the scanned files
ScanOrders(fs) ==
    LET found == ScanEnvFiles(fs)
    IN  {o \in SeqsUpTo(found, Cardinality(found)) :
            Len(o) = Cardinality(found) /\ Range(o) = found}

\* the directories create_dir_all makes sure exist for a relative directory
RECURSIVE Ancestors(_)
Ancestors(dir) == IF dir = EmptyStr THEN {EmptyStr} ELSE {dir} \cup Ancestors(ParentStr(dir))

\* a cleanup that makes sure the root exists and removes nothing
StandardCleanupKeepingFiles(fs, ds, io) ==
    IF io \in {"remove_failed_early", "remove_failed_late", "create_failed"}
    THEN [ok |-> FALSE, files |-> fs, dirs |-> ds]
    ELSE [ok |-> TRUE, files |-> fs, dirs |-> ds \cup {EmptyStr}]

\* standard_cleanup: remove_dir_all if the root exists, then create_dir_all
StandardCleanup(fs, ds, io) ==
    IF EmptyStr \in ds /\ io = "remove_failed_early"
    THEN [ok |-> FALSE, files |-> fs, dirs |-> ds]
    ELSE IF EmptyStr \in ds /\ io = "remove_failed_late"
    THEN [ok |-> FALSE, files |-> <<>>, dirs |-> {EmptyStr}]
    ELSE IF io = "create_failed"
    THEN [ok |-> FALSE, files |-> <<>>, dirs |-> {}]
    ELSE [ok |-> TRUE, files |-> <<>>, dirs |-> {EmptyStr}]

\* a cleaning that removes the build root although the scan has failed
CleanBuildDirectoryCleaningAfterFailedScan(preserve, fs, ds, order, io) ==
    LET c == StandardCleanup(fs, ds, IF io = "scan_failed" THEN "ok" ELSE io)
    IN  IF ~preserve \/ Len(order) = 0 \/ (EmptyStr \in ds /\ io = "scan_failed")
        THEN [ok |-> c.ok /\ io # "scan_failed", files |-> c.files, dirs |-> c.dirs,
              held |-> None, scanned |-> {}]
        ELSE [ok |-> c.ok, files |-> c.files, dirs |-> c.dirs, held |-> Some(order),
              scanned |-> Range(order)]

\* a cleaning that scans and holds whatever the preservation flag says
CleanBuildDirectoryAlwaysScanning(preserve, fs, ds, order, io) ==
    LET c == StandardCleanup(fs, ds, io)
    IN  IF Len(order) = 0
        THEN [ok |-> c.ok, files |-> c.files, dirs |-> c.dirs, held |-> None,
              scanned |-> {}]
        ELSE [ok |-> c.ok, files |-> c.files, dirs |-> c.dirs, held |-> Some(order),
              scanned |-> Range(order)]

\* clean_build_directory: scan, hold in memory, clean
CleanBuildDirectory(preserve, fs, ds, order, io) ==
    LET c == StandardCleanup(fs, ds, io)
    IN  IF ~preserve
        THEN [ok |-> c.ok, files |-> c.files, dirs |-> c.dirs, held |-> None,
              scanned |-> {}]
        ELSE IF EmptyStr \in ds /\ io = "scan_failed"
        THEN [ok |-> FALSE, files |-> fs, dirs |-> ds, held |-> None, scanned |-> {}]
        ELSE IF Len(order) = 0
        THEN [ok |-> c.ok, files |-> c.files, dirs |-> c.dirs, held |-> None,
              scanned |-> {}]
        ELSE [ok |-> c.ok, files |-> c.files, dirs |-> c.dirs, held |-> Some(order),
              scanned |-> Range(order)]

PathMapping(old, new, confidence) ==
    [old_path |-> old, new_path |-> new, confidence |-> confidence]

\* the first entry of new_structure equal to the file's parent directory
RECURSIVE FindExactMatch(_, _, _)
FindExactMatch(file, new_structure, i) ==
    IF i > Len(new_structure)
    THEN PathMapping(file.original_path, file.original_path, 0)
    ELSE LET new_path_str == new_structure[i]
             expected_dir == ParentStr(file.original_path)
         IN  IF new_path_str = expected_dir
                \/ (expected_dir = EmptyStr /\ new_path_str = EmptyStr)
             THEN PathMapping(file.original_path,
                              IF new_path_str = EmptyStr
                              THEN FileNameStr(file.original_path)
                              ELSE PathJoin(new_path_str, FileNameStr(file.original_path)),
                              1)
             ELSE FindExactMatch(file, new_structure, i + 1)

\* a mapping that accepts the first target under the file's environment directory
FindBestPathMappingByEnvironment(file, new_structure) ==
    LET same == {i \in 1..Len(new_structure) :
                    /\ Components(new_structure[i]) # <<>>
                    /\ Components(file.original_path) # <<>>
                    /\ Components(new_structure[i])[1] = Components(file.original_path)[1]}
    IN  IF same = {}
        THEN PathMapping(file.original_path, file.original_path, 0)
        ELSE PathMapping(file.original_path,
                         PathJoin(new_structure[CHOOSE i \in same : \A j \in same : i <= j],
                                  FileNameStr(file.original_path)),
                         1)

\* find_best_path_mapping: only an exact structural match is accepted
FindBestPathMapping(file, new_structure) == FindExactMatch(file, new_structure, 1)

\* generate_path_mappings
GeneratePathMappings(preserved_files, new_structure) ==
    [i \in 1..Len(preserved_files) |-> FindBestPathMapping(preserved_files[i], new_structure)]

\* restore_single_file with the conflict check left out
RestoreSingleFileOverwriting(fs, ds, file, mappings, writeFails) ==
    LET found == {i \in 1..Len(mappings) : mappings[i].old_path = file.original_path}
        mapping == mappings[CHOOSE i \in found : \A j \in found : i <= j]
    IN  IF found = {} THEN [result |-> "Err", files |-> fs, dirs |-> ds]
        ELSE IF mapping.confidence < 1
        THEN [result |-> "SkippedNoMatch", files |-> fs, dirs |-> ds]
        ELSE [result |-> "Restored",
              files |-> MapInsert(fs, mapping.new_path, file.content),
              dirs |-> ds \cup Ancestors(ParentStr(mapping.new_path))]

\* restore_single_file: write the file back unless there is no exact match, a
\* file with other content is in the way, or the write fails
RestoreSingleFile(fs, ds, file, mappings, writeFails) ==
    LET found == {i \in 1..Len(mappings) : mappings[i].old_path = file.original_path}
        mapping == mappings[CHOOSE i \in found : \A j \in found : i <= j]
        target_path == mapping.new_path
        made == ds \cup Ancestors(ParentStr(target_path))
    IN  IF found = {} THEN [result |-> "Err", files |-> fs, dirs |-> ds]
        ELSE IF mapping.confidence < 1
        THEN [result |-> "SkippedNoMatch", files |-> fs, dirs |-> ds]
        ELSE IF target_path \in DOMAIN fs /\ fs[target_path] # file.content
        THEN [result |-> "SkippedConflict", files |-> fs, dirs |-> made]
        ELSE IF writeFails
        THEN [result |-> "Err", files |-> fs, dirs |-> made]
        ELSE [result |-> "Restored", files |-> MapInsert(fs, target_path, file.content),
              dirs |-> made]

\* safe_filename: the original path with every separator replaced by "_"
SafeFilename(path) == [i \in 1..Len(path) |-> IF path[i] = "/" THEN "_" ELSE path[i]]

RECURSIVE WriteBackupFiles(_, _, _, _)
WriteBackupFiles(failed, i, upto, content_files) ==
    IF i > upto THEN content_files
    ELSE WriteBackupFiles(failed, i + 1, upto,
             MapInsert(content_files, SafeFilename(failed[i].original_path),
                       failed[i].content))

\* create_backup_for_failed_files: the backup directory, metadata.json, then one
\* content file per entry.  failStep numbers the I/O step that fails: 1 is
\* create_dir_all, 2 the write of metadata.json, 2 + k the write of the k-th
\* content file; 0, or a step that is never reached, is no failure.
CreateBackupForFailedFiles(failed, failStep) ==
    IF failStep = 1 THEN [ok |-> FALSE, backup |-> NoBackup]
    ELSE IF failStep = 2
    THEN [ok |-> FALSE,
          backup |-> [created |-> TRUE, manifest |-> None, contentFiles |-> <<>>]]
    ELSE IF failStep > 2 /\ failStep - 2 <= Len(failed)
    THEN [ok |-> FALSE,
          backup |-> [created |-> TRUE, manifest |-> Some(failed),
                      contentFiles |-> WriteBackupFiles(failed, 1, failStep - 3, <<>>)]]
    ELSE [ok |-> TRUE,
          backup |-> [created |-> TRUE, manifest |-> Some(failed),
                      contentFiles |-> WriteBackupFiles(failed, 1, Len(failed), <<>>)]]

\* a backup that takes every held file, restored or not
BackupSelectionAll(preserved_files, log) == preserved_files

\* failed_files: the held files whose restore did not end in Restored
BackupSelection(preserved_files, log) ==
    Flatten([i \in 1..Len(preserved_files) |->
                IF log[preserved_files[i].original_path] # "Restored"
                THEN <<preserved_files[i]>> ELSE <<>>])

\* the loop of restore_env_files over the held files
RECURSIVE RestoreLoop(_, _, _, _, _, _, _)
RestoreLoop(preserved_files, mappings, i, fs, ds, log, failing) ==
    IF i > Len(preserved_files) THEN [files |-> fs, dirs |-> ds, log |-> log]
    ELSE LET r == RestoreSingleFile(fs, ds, preserved_files[i], mappings, i \in failing)
         IN  RestoreLoop(preserved_files, mappings, i + 1, r.files, r.dirs,
                         MapInsert(log, preserved_files[i].original_path, r.result),
                         failing)

\* restore_env_files
RestoreEnvFiles(preserve, heldOpt, new_structure, fs, ds, failing, failStep) ==
    IF ~preserve \/ heldOpt = None
    THEN [ok |-> TRUE, files |-> fs, dirs |-> ds, log |-> <<>>, backup |-> NoBackup,
          held |-> heldOpt]
    ELSE LET preserved_files == Unwrap(heldOpt)
             mappings == GeneratePathMappings(preserved_files, new_structure)
             r == RestoreLoop(preserved_files, mappings, 1, fs, ds, <<>>, failing)
             failed_files == BackupSelection(preserved_files, r.log)
             b == CreateBackupForFailedFiles(failed_files, failStep)
         IN  IF preserved_files = <<>>
             THEN [ok |-> TRUE, files |-> fs, dirs |-> ds, log |-> <<>>,
                   backup |-> NoBackup, held |-> heldOpt]
             ELSE IF failed_files = <<>>
             THEN [ok |-> TRUE, files |-> r.files, dirs |-> r.dirs, log |-> r.log,
                   backup |-> NoBackup, held |-> None]
             ELSE [ok |-> b.ok, files |-> r.files, dirs |-> r.dirs, log |-> r.log,
                   backup |-> b.backup,
                   held |-> IF b.ok THEN None ELSE heldOpt]

(***************************************************************************)
(* create_build_structure (build.rs): one loop iteration per target.       *)
(***************************************************************************)
\* push every element of xs, held already or not
PushAll(acc, xs, i) == acc \o SubSeq(xs, i, Len(xs))

\* push every element of xs that acc does not hold yet
RECURSIVE PushUnique(_, _, _)
PushUnique(acc, xs, i) ==
    IF i > Len(xs) THEN acc
    ELSE PushUnique(IF SeqContains(acc, xs[i]) THEN acc ELSE Append(acc, xs[i]), xs, i + 1)

\* resolve_combo_extensions: the registered lists, flattened without duplicates
RECURSIVE ResolveComboExtensions(_, _, _, _)
ResolveComboExtensions(cfg, combo_names, i, resolved_extensions) ==
    IF i > Len(combo_names) THEN [ok |-> TRUE, extensions |-> resolved_extensions]
    ELSE IF combo_names[i] \in DOMAIN cfg.combos
    THEN ResolveComboExtensions(cfg, combo_names, i + 1,
             PushUnique(resolved_extensions, cfg.combos[combo_names[i]], 1))
    ELSE [ok |-> FALSE, extensions |-> <<>>]

\* resolve_all_extensions: direct extensions, then the extensions of the combos
ResolveAllExtensions(cfg, direct_extensions, combo_names) ==
    LET direct == PushUnique(<<>>, direct_extensions, 1)
        combo == ResolveComboExtensions(cfg, combo_names, 1, <<>>)
    IN  IF combo_names = <<>> THEN [ok |-> TRUE, extensions |-> direct]
        ELSE IF ~combo.ok THEN combo
        ELSE [ok |-> TRUE, extensions |-> PushUnique(direct, combo.extensions, 1)]

IsPrefix(pre, s) == Len(pre) <= Len(s) /\ SubSeq(s, 1, Len(pre)) = pre

\* Path::exists for a component directory: some file lies under it
DirExists(tree, dir) == \E f \in DOMAIN tree : IsPrefix(dir \o Slash, f)

EnvFileName == Name(".env")

\* discover_files over base, environment and extensions, followed for the one
\* relative path ".env": the source of highest priority, the last extension
\* winning among extensions (docker-compose.yml is an excluded pattern)
RECURSIVE DiscoverExtension(_, _, _, _)
DiscoverExtension(tree, dirsList, ext, i) ==
    IF i > Len(dirsList) THEN <<>>
    ELSE IF DirExists(tree, PathJoin(dirsList[i], ext))
    THEN IF PathJoin(PathJoin(dirsList[i], ext), EnvFileName) \in DOMAIN tree
         THEN <<PathJoin(PathJoin(dirsList[i], ext), EnvFileName)>>
         ELSE <<>>
    ELSE DiscoverExtension(tree, dirsList, ext, i + 1)

DiscoverFiles(tree, mgr, environment, extensions) ==
    (IF PathJoin(mgr.base_path, EnvFileName) \in DOMAIN tree
     THEN <<PathJoin(mgr.base_path, EnvFileName)>> ELSE <<>>)
    \o (IF environment # None
           /\ PathJoin(PathJoin(mgr.environments_path, Unwrap(environment)), EnvFileName)
                 \in DOMAIN tree
        THEN <<PathJoin(PathJoin(mgr.environments_path, Unwrap(environment)),
                        EnvFileName)>>
        ELSE <<>>)
    \o Flatten([i \in 1..Len(extensions) |->
                   DiscoverExtension(tree, mgr.extensions_paths, extensions[i], 1)])

\* copy_additional_files: copy the winning source into the output directory (a
\* copy that fails is reported as a warning by the caller and is not followed)
CopyAdditionalFiles(tree, mgr, environment, extensions, output_path, fs, ds) ==
    LET found == DiscoverFiles(tree, mgr, environment, extensions)
    IN  IF found = <<>> THEN [files |-> fs, dirs |-> ds]
        ELSE [files |-> MapInsert(fs, PathJoin(output_path, EnvFileName),
                                  Text(tree[found[Len(found)]].text)),
              dirs |-> ds \cup Ancestors(output_path)]

\* the special cases that put the manifest directly into the build root
WritesToBuildRoot(cfg, combo) ==
    (Len(cfg.environments) = 1 /\ Len(cfg.extensions) + Len(cfg.comboKeys) = 0)
    \/ combo.output_dir = EmptyStr

NoWrite == [done |-> FALSE, output_dir |-> EmptyStr, dir |-> EmptyStr, path |-> EmptyStr]

\* the body of the loop over the combinations; io names the step that fails
ProcessCombination(cfg, tree, mgr, combo, fs, ds, io) ==
    LET output_path == IF WritesToBuildRoot(cfg, combo) THEN EmptyStr
                       ELSE combo.output_dir
        made == ds \cup Ancestors(output_path)
        all_extensions == ResolveAllExtensions(cfg, combo.extensions, combo.combo_names)
        merged == MergeComposeFiles(tree, mgr, combo.environment,
                                    all_extensions.extensions)
        compose_path == PathJoin(output_path, ComposeFileName)
        wrote == MapInsert(fs, compose_path, Manifest(merged.value))
        copied == CopyAdditionalFiles(tree, mgr, combo.environment,
                                      all_extensions.extensions, output_path,
                                      wrote, made)
    IN  IF ~WritesToBuildRoot(cfg, combo) /\ io = "create_dir_failed"
        THEN [ok |-> FALSE, files |-> fs, dirs |-> ds, write |-> NoWrite]
        ELSE IF ~all_extensions.ok \/ ~merged.ok \/ io = "write_failed"
        THEN [ok |-> FALSE, files |-> fs, dirs |-> made, write |-> NoWrite]
        ELSE [ok |-> TRUE, files |-> copied.files, dirs |-> copied.dirs,
              write |-> [done |-> TRUE, output_dir |-> combo.output_dir,
                         dir |-> output_path, path |-> compose_path]]

(***************************************************************************)
(* The runs of execute_build: configurations, old build roots and source   *)
(* trees, and the outcomes the file system can give to each I/O step.      *)
(***************************************************************************)
RunEnvOrder == <<Name("dev"), Name("prod"), Name("qa")>>
RunEnvLists == {SubSeq(RunEnvOrder, 1, n) : n \in 0..MaxEnvs}
RunExtLists == SeqsUpTo({Name("auth")}, MaxExts)
RunComboMaps == {<<>>, Name("sec") :> <<Name("auth"), Name("guard")>>}
RunOverrides ==
    {[extensions |-> <<Name("auth")>>, combos |-> <<>>, skip_base_generation |-> None],
     [extensions |-> <<>>, combos |-> <<Name("sec")>>, skip_base_generation |-> None],
     [extensions |-> <<Name("auth")>>, combos |-> <<>>,
      skip_base_generation |-> Some(TRUE)]}
RunEnvConfigMaps(envs) ==
    {<<>>} \cup (IF envs = <<>> THEN {} ELSE {envs[1] :> o : o \in RunOverrides})

RunMerger ==
    [base_path |-> PathJoin(ComponentsDir, Name("base")),
     environments_path |-> EnvironmentsPath,
     extensions_paths |-> <<PathJoin(ComponentsDir, Name("extensions"))>>]

Doc(n) == Mapping(("services" :> Scalar(n)) @@ ("volumes" :> Sequence(<<Scalar(n)>>)))

\* the layers that are always there: every environment and the extension auth
RunLayers ==
    [f \in {EnvFile(RunMerger, RunEnvOrder[i]) : i \in 1..Len(RunEnvOrder)}
           \cup {ExtFile(RunMerger.extensions_paths[1], Name("auth"))}
        |-> Parsed(Doc(2))]

\* the base manifest is valid or missing; next to a valid one there may be a .env
RunTrees ==
    {RunLayers} \cup
    {(BaseFile(RunMerger) :> Parsed(Doc(1))) @@ e @@ RunLayers :
        e \in {<<>>, PathJoin(RunMerger.base_path, EnvFileName) :> RawText("A")}}

OldPaths ==
    {Name(".env"),
     PathJoin(Name("dev"), Name(".env")),
     PathJoin(Name("prod"), Name(".env")),
     PathJoin(PathJoin(Name("dev"), Name("auth")), Name(".env")),
     PathJoin(Name("dev") \o Underscore \o Name("auth"), Name(".env"))}

\* the override files of an old build root, next to its stale manifest
OldEnvFiles ==
    UNION {[D -> {Text("A"), Text("B")}] :
              D \in {P \in SUBSET OldPaths : Cardinality(P) <= MaxHeld}}

DirsOf(fs) == UNION {Ancestors(ParentStr(f)) : f \in DOMAIN fs} \cup {EmptyStr}

\* the build root before the run: missing, or an old build; with preservation
\* switched off the old build holds at most one override file
OldRoots ==
    {[files |-> <<>>, dirs |-> {}]}
    \cup {[files |-> old @@ (ComposeFileName :> Manifest(Scalar(0))),
           dirs |-> DirsOf(old)] : old \in OldEnvFiles}
RunRoots ==
    {[preserve |-> TRUE, files |-> r.files, dirs |-> r.dirs] : r \in OldRoots}
    \cup {[preserve |-> FALSE, files |-> r.files, dirs |-> r.dirs] :
             r \in {o \in OldRoots : Cardinality(ScanEnvFiles(o.files)) <= 1}}

CleanIo == {"ok", "scan_failed", "remove_failed_early", "remove_failed_late",
            "create_failed"}
TargetIo == {"ok", "create_dir_failed", "write_failed"}
RestoreFailures == {{}} \cup {{i} : i \in 1..MaxHeld}
BackupFailSteps == 0..(2 + MaxHeld)

\* create_build_structure, first part: BuildCleaner::new and clean_build_directory
Clean ==
    /\ pc = "planned"
    /\ \E io \in CleanIo, order \in ScanOrders(files) :
          \E r \in {CleanBuildDirectory(config.preserve_env_files, files, dirs,
                                        order, io)} :
              /\ files' = r.files
              /\ dirs' = r.dirs
              /\ held' = r.held
              /\ scanned' = r.scanned
              /\ pc' = IF r.ok THEN "building" ELSE "failed"
              /\ idx' = IF r.ok THEN 1 ELSE 0
    /\ UNCHANGED <<config, combinations, planErr, backup, restoreLog, written,
                   components, merger, mergeIn, mergeOut>>

\* an iteration of the loop that goes on to the next combination after a failure
BuildTargetSwallowingErrors ==
    /\ pc = "building"
    /\ idx <= Len(combinations)
    /\ \E io \in TargetIo :
          \E r \in {ProcessCombination(config, components, merger, combinations[idx],
                                       files, dirs, io)} :
              /\ files' = r.files
              /\ dirs' = r.dirs
              /\ written' = IF r.ok THEN Append(written, r.write) ELSE written
    /\ pc' = "building"
    /\ idx' = idx + 1
    /\ UNCHANGED <<config, combinations, planErr, held, scanned, backup, restoreLog,
                   components, merger, mergeIn, mergeOut>>

\* create_build_structure, one iteration of the loop over the combinations
BuildTarget ==
    /\ pc = "building"
    /\ idx <= Len(combinations)
    /\ \E io \in TargetIo :
          \E r \in {ProcessCombination(config, components, merger, combinations[idx],
                                       files, dirs, io)} :
              /\ files' = r.files
              /\ dirs' = r.dirs
              /\ written' = IF r.ok THEN Append(written, r.write) ELSE written
              /\ pc' = IF r.ok THEN "building" ELSE "failed"
              /\ idx' = IF r.ok THEN idx + 1 ELSE idx
    /\ UNCHANGED <<config, combinations, planErr, held, scanned, backup, restoreLog,
                   components, merger, mergeIn, mergeOut>>

\* create_build_structure, last part: restore_env_files on the planned directories
Restore ==
    /\ pc = "building"
    /\ idx > Len(combinations)
    /\ \E failing \in RestoreFailures, failStep \in BackupFailSteps :
          \E r \in {RestoreEnvFiles(config.preserve_env_files, held,
                                    OutputDirs(combinations), files, dirs,
                                    failing, failStep)} :
              /\ files' = r.files
              /\ dirs' = r.dirs
              /\ held' = r.held
              /\ backup' = r.backup
              /\ restoreLog' = r.log
              /\ pc' = IF r.ok THEN "done" ELSE "failed"
    /\ UNCHANGED <<config, combinations, planErr, idx, scanned, written, components,
                   merger, mergeIn, mergeOut>>

Init ==
    /\ \E envs \in RunEnvLists, exts \in RunExtLists, cm \in RunComboMaps,
          root \in RunRoots :
          \E keys \in KeyOrders(cm), ec \in RunEnvConfigMaps(envs) :
             /\ config = Config(envs, exts, cm, keys, ec, FALSE, root.preserve)
             /\ files = root.files
             /\ dirs = root.dirs
    /\ components \in RunTrees
    /\ merger = RunMerger
    /\ pc = "start"
    /\ combinations = <<>>
    /\ planErr = None
    /\ idx = 0
    /\ held = None
    /\ scanned = {}
    /\ backup = NoBackup
    /\ restoreLog = <<>>
    /\ written = <<>>
    /\ mergeIn = <<>>
    /\ mergeOut = None

Next == Plan \/ Clean \/ BuildTarget \/ Restore

Spec == Init /\ [][Next]_vars

(***************************************************************************)
(* Properties of the runs.                                                 *)
(***************************************************************************)
Ended == pc \in {"done", "failed"}

\* Cleanup has emptied the build root: the loop over the targets was entered
CleanupDone == idx >= 1

\* the file's content is at its original path under the build root
InBuildRoot(fs, f) ==
    f.original_path \in DOMAIN fs /\ fs[f.original_path] = f.content

\* the file's path and content are in the manifest of the backup
InManifest(b, f) ==
    /\ b.manifest # None
    /\ \E i \in 1..Len(Unwrap(b.manifest)) :
          /\ Unwrap(b.manifest)[i].original_path = f.original_path
          /\ Unwrap(b.manifest)[i].content = f.content

\* the file's path is in the manifest of the backup
ListedInManifest(b, f) ==
    /\ b.manifest # None
    /\ \E i \in 1..Len(Unwrap(b.manifest)) :
          Unwrap(b.manifest)[i].original_path = f.original_path

\* the backup directory holds the file's content
InBackup(b, f) ==
    \/ InManifest(b, f)
    \/ /\ SafeFilename(f.original_path) \in DOMAIN b.contentFiles
       /\ b.contentFiles[SafeFilename(f.original_path)] = f.content

\* C1: with preservation enabled, a run that has cleaned the build root never
\* ends, by completing or by a failing target, without the content of every
\* scanned override file being under the build root or in the backup.
C1_HeldNeverDropped ==
    (Ended /\ CleanupDone /\ config.preserve_env_files)
        => \A f \in scanned : InBuildRoot(files, f) \/ InBackup(backup, f)

\* the step of the run in which restore_env_files works on held files
RestoreStep ==
    /\ pc = "building"
    /\ pc' \in {"done", "failed"}
    /\ idx > Len(combinations)
    /\ config.preserve_env_files
    /\ held # None

HeldFiles == IF held = None THEN {} ELSE Range(Unwrap(held))

ExactMatch(f) == SeqContains(OutputDirs(combinations), ParentStr(f.original_path))

\* a file with other content is at the held file's destination
Conflict(fs, f) ==
    f.original_path \in DOMAIN fs /\ fs[f.original_path] # f.content

Outcome(log, f) == log[f.original_path]

\* C2: Restore writes a held file back if and only if an outputDir equals the
\* parent directory of its original path and no file with other content is at
\* the destination; a file written back is at its original path with the
\* content captured at Scan.
C2_RestoredIffExactMatch ==
    [][RestoreStep =>
          \A f \in HeldFiles :
             /\ Outcome(restoreLog', f) = "Restored"
                   <=> (ExactMatch(f) /\ ~Conflict(files, f))
             /\ Outcome(restoreLog', f) = "Restored" => InBuildRoot(files', f)]_vars

\* C2, amended: Restore writes a held file back if and only if an outputDir
\* equals the parent directory of its original path, no file with other content
\* is at the destination, and creating the directory and writing the file do not
\* fail; a file written back is at its original path with the content captured
\* at Scan, and it was captured at Scan.
C2_RestoredIffExactMatchAndWritable ==
    [][RestoreStep =>
          \A f \in HeldFiles :
             /\ Outcome(restoreLog', f) = "Restored"
                   <=> (ExactMatch(f) /\ ~Conflict(files, f)
                        /\ Outcome(restoreLog', f) # "Err")
             /\ Outcome(restoreLog', f) = "Restored"
                   => (InBuildRoot(files', f) /\ f \in scanned)]_vars

\* a run in which one held file was written back and the write of another failed
C2_Witness ==
    /\ pc = "done"
    /\ \E p \in DOMAIN restoreLog : restoreLog[p] = "Restored"
    /\ \E p \in DOMAIN restoreLog : restoreLog[p] = "Err"

\* restore_env_files has returned Ok after working on the held files
RestoreReturnedOk == pc = "done" /\ config.preserve_env_files /\ scanned # {}

WasRestored(f) == Outcome(restoreLog, f) = "Restored"

\* C3: when restore_env_files returns successfully, every held file that was not
\* restored (no exact match, conflict, or write error) has its content and its
\* original path in the backup directory, the path and the content recorded in
\* the manifest and a content file written under its backup name; no restored
\* file is listed in the backup; if every file was restored there is no backup
\* directory.
C3_UnrestoredAreBackedUp ==
    RestoreReturnedOk =>
        /\ \A f \in scanned :
              IF WasRestored(f)
              THEN ~ListedInManifest(backup, f)
              ELSE /\ InManifest(backup, f)
                   /\ SafeFilename(f.original_path) \in DOMAIN backup.contentFiles
        /\ Cardinality(DOMAIN backup.contentFiles) <= Cardinality(scanned)
        /\ (\A f \in scanned : WasRestored(f)) => backup = NoBackup

\* a successful restore with one file written back and one file backed up
C3_Witness ==
    /\ RestoreReturnedOk
    /\ \E f \in scanned : WasRestored(f)
    /\ \E f \in scanned : ~WasRestored(f) /\ InManifest(backup, f)

C5_ManifestPathsDisjoint ==
    \A i, j \in 1..Len(written) : i # j => written[i].path # written[j].path

\* C6: every target's manifest is written under <buildRoot>/<outputDir>/, and
\* directly under the build root when outputDir is empty: the directory written
\* is the outputDir handed to Restore.
C6_ManifestUnderOutputDir ==
    \A i \in 1..Len(written) :
       /\ written[i].dir = written[i].output_dir
       /\ written[i].path = PathJoin(written[i].output_dir, ComposeFileName)
       /\ written[i].output_dir = OutputDirs(combinations)[i]

(***************************************************************************)
(* merge_yaml_values on three documents, folded from the left as           *)
(* merge_compose_files does and grouped to the right.                      *)
(***************************************************************************)
AssocDocs == DocsOfDepth(MaxDepth - 1)

\* the two groupings of the merge of the three documents under check
MergeThree ==
    /\ pc = "merge3"
    /\ mergeOut' = Some([left |-> MergeYamlValues(MergeYamlValues(mergeIn[1], mergeIn[2]),
                                                  mergeIn[3]),
                         right |-> MergeYamlValues(mergeIn[1],
                                                   MergeYamlValues(mergeIn[2], mergeIn[3]))])
    /\ pc' = "merged3"
    /\ UNCHANGED <<config, combinations, planErr, idx, files, dirs, held, scanned,
                   backup, restoreLog, written, components, merger, mergeIn>>

InitMergeThree ==
    /\ mergeIn \in AssocDocs \X AssocDocs \X AssocDocs
    /\ mergeOut = None
    /\ pc = "merge3"
    /\ config = NoConfig
    /\ combinations = <<>>
    /\ planErr = None
    /\ idx = 0
    /\ files = <<>>
    /\ dirs = {}
    /\ held = None
    /\ scanned = {}
    /\ backup = NoBackup
    /\ restoreLog = <<>>
    /\ written = <<>>
    /\ components = <<>>
    /\ merger = NoMerger

SpecMergeThree == InitMergeThree /\ [][MergeThree]_vars

\* C11: the merge is associative on all documents, whatever the mixture of types
\* at the same key: merge(merge(a, b), c) = merge(a, merge(b, c)).
C11_MergeAssociative ==
    pc = "merged3" => Unwrap(mergeOut).left = Unwrap(mergeOut).right

(***************************************************************************)
(* merge_compose_files folding the layers of one target: base, the         *)
(* environment dev and up to MaxFoldExts extensions, every layer file being *)
(* missing, unreadable as a manifest, or a manifest whose keys hold scalars *)
(* and sequences in any mixture.                                           *)
(***************************************************************************)
MaxFoldExts == 2

FoldExtOrder == <<Name("auth"), Name("guard"), Name("mail")>>

FoldServices == {Scalar(1), Scalar(2), Sequence(<<Scalar(2)>>)}
FoldVolumes ==
    {Scalar(1), Sequence(<<Scalar(1)>>), Sequence(<<Scalar(1), Scalar(2)>>)}

FoldDocs ==
    {Mapping("services" :> sv) : sv \in FoldServices}
    \cup {Mapping(("services" :> sv) @@ ("volumes" :> vv)) :
             sv \in FoldServices, vv \in FoldVolumes}

FoldContents ==
    {Unparsable, Parsed(Mapping("volumes" :> Sequence(<<Scalar(1)>>)))}
    \cup {Parsed(v) : v \in FoldDocs}

FoldTrees(mgr, environment, extensions) ==
    UNION {[D -> FoldContents] :
              D \in SUBSET ({BaseFile(mgr)} \cup LayerFiles(mgr, environment, extensions))}

InitFold ==
    /\ merger = RunMerger
    /\ \E env \in {None, Some(Name("dev"))}, n \in 0..MaxFoldExts :
          mergeIn = [environment |-> env, extensions |-> SubSeq(FoldExtOrder, 1, n)]
    /\ components \in FoldTrees(merger, mergeIn.environment, mergeIn.extensions)
    /\ mergeOut = None
    /\ pc = "compose"
    /\ config = NoConfig
    /\ combinations = <<>>
    /\ planErr = None
    /\ idx = 0
    /\ files = <<>>
    /\ dirs = {}
    /\ held = None
    /\ scanned = {}
    /\ backup = NoBackup
    /\ restoreLog = <<>>
    /\ written = <<>>

SpecFold == InitFold /\ [][ComposeMerge]_vars

\* the documents of the layers that load, in the order they are folded
LoadedLayers ==
    LET paths == ResolveMergeOrder(components, merger, mergeIn.environment,
                                   mergeIn.extensions)
    IN  Flatten([i \in 1..Len(paths) |->
                    IF LoadComposeFile(components, paths[i]).ok
                    THEN <<LoadComposeFile(components, paths[i]).value>>
                    ELSE <<>>])

\* the indices of the loaded layers that define the key
Defining(layers, k) == {i \in 1..Len(layers) : k \in DOMAIN layers[i].m}

Highest(S) == CHOOSE i \in S : \A j \in S : j <= i

FoldSucceeded == pc = "composed" /\ Unwrap(mergeOut).ok

\* C12: over a fold of N layers, a key that holds a scalar in the highest-index
\* successfully loaded layer defining it, and is defined in an earlier loaded
\* layer as well, has in the final document the value of that highest layer.
C12_LastScalarWins ==
    FoldSucceeded =>
        \A k \in DocKeys :
           LET defining == Defining(LoadedLayers, k)
           IN  (Cardinality(defining) >= 2
                /\ LoadedLayers[Highest(defining)].m[k].t = "scalar")
               => /\ k \in DOMAIN Unwrap(mergeOut).value.m
                  /\ Unwrap(mergeOut).value.m[k] = LoadedLayers[Highest(defining)].m[k]

\* a fold of three loaded layers, one further layer skipped, in which a key holds
\* one scalar in an earlier layer and another scalar in the last layer defining it
C12_Witness ==
    /\ FoldSucceeded
    /\ Len(LoadedLayers) >= 3
    /\ Unwrap(mergeOut).skipped # <<>>
    /\ \E k \in DocKeys :
          \E i \in Defining(LoadedLayers, k) :
             /\ i < Highest(Defining(LoadedLayers, k))
             /\ LoadedLayers[i].m[k].t = "scalar"
             /\ LoadedLayers[Highest(Defining(LoadedLayers, k))].m[k].t = "scalar"
             /\ LoadedLayers[i].m[k] # LoadedLayers[Highest(Defining(LoadedLayers, k))].m[k]
             /\ Unwrap(mergeOut).value.m[k]
                   = LoadedLayers[Highest(Defining(LoadedLayers, k))].m[k]

\* the length a layer contributes to a sequence key: 0 where the key is absent
LengthIn(layer, k) == IF k \in DOMAIN layer.m THEN Len(layer.m[k].q) ELSE 0

\* C13: for every number of layers and every key that holds a sequence in every
\* loaded layer defining it, the length of the sequence in the final document is
\* the sum of its lengths over the layers, an absent key counting as 0.
C13_SequenceGrowth ==
    FoldSucceeded =>
        \A k \in DocKeys :
           LET defining == Defining(LoadedLayers, k)
           IN  (defining # {} /\ \A i \in defining : LoadedLayers[i].m[k].t = "seq")
               => /\ k \in DOMAIN Unwrap(mergeOut).value.m
                  /\ Unwrap(mergeOut).value.m[k].t = "seq"
                  /\ Len(Unwrap(mergeOut).value.m[k].q)
                        = SumSeq([i \in 1..Len(LoadedLayers) |->
                                     LengthIn(LoadedLayers[i], k)])

\* a fold of four loaded layers in which a key holds sequences of length 1 and 2
\* in two of them and is absent from another, giving a sequence of length 3 or more
C13_Witness ==
    /\ FoldSucceeded
    /\ Len(LoadedLayers) = 4
    /\ \E k \in DocKeys :
          /\ \A i \in Defining(LoadedLayers, k) : LoadedLayers[i].m[k].t = "seq"
          /\ \E i, j \in Defining(LoadedLayers, k) :
                Len(LoadedLayers[i].m[k].q) = 1 /\ Len(LoadedLayers[j].m[k].q) = 2
          /\ \E i \in 1..Len(LoadedLayers) : i \notin Defining(LoadedLayers, k)
          /\ Len(Unwrap(mergeOut).value.m[k].q) >= 3

(***************************************************************************)
(* resolve_merge_order and the fold on targets with several extensions and *)
(* several extension search directories.  Every layer file that exists is  *)
(* a valid manifest carrying a number of its own, so that the merged       *)
(* sequence under "volumes" lists the layers folded, in order.             *)
(***************************************************************************)
MaxLayerExts == 2

LayerExtNames == {Name("auth"), Name("guard")}

LayerExtLists ==
    {e \in SeqsUpTo(LayerExtNames, MaxLayerExts) :
        \A i, j \in 1..Len(e) : i # j => e[i] # e[j]}

LayerMergers ==
    {[base_path |-> bp, environments_path |-> EnvironmentsPath, extensions_paths |-> eps] :
        bp \in BasePaths,
        eps \in {e \in ExtensionsPathLists : Len(e) = 2}}

\* the number carried by the manifest at a path
LayerId(mgr, environment, file_path) ==
    IF file_path = BaseFile(mgr) THEN 1
    ELSE IF environment # None /\ file_path = EnvFile(mgr, Unwrap(environment)) THEN 2
    ELSE IF file_path = ExtFile(mgr.extensions_paths[1], Name("auth")) THEN 3
    ELSE IF file_path = ExtFile(mgr.extensions_paths[1], Name("guard")) THEN 4
    ELSE IF file_path = ExtFile(mgr.extensions_paths[2], Name("auth")) THEN 5
    ELSE 6

LayerTrees(mgr, environment, extensions) ==
    {[f \in D |-> Parsed(Doc(LayerId(mgr, environment, f)))] :
        D \in SUBSET ({BaseFile(mgr)} \cup LayerFiles(mgr, environment, extensions))}

InitLayers ==
    /\ merger \in LayerMergers
    /\ \E env \in {None} \cup {Some(e) : e \in LayerEnvNames}, exts \in LayerExtLists :
          mergeIn = [environment |-> env, extensions |-> exts]
    /\ components \in LayerTrees(merger, mergeIn.environment, mergeIn.extensions)
    /\ mergeOut = None
    /\ pc = "compose"
    /\ config = NoConfig
    /\ combinations = <<>>
    /\ planErr = None
    /\ idx = 0
    /\ files = <<>>
    /\ dirs = {}
    /\ held = None
    /\ scanned = {}
    /\ backup = NoBackup
    /\ restoreLog = <<>>
    /\ written = <<>>

SpecLayers == InitLayers /\ [][ComposeMerge]_vars

\* the layers the contract names: base, the environment's file if present, then
\* for each extension the file in the first search directory that contains it
ExpectedLayers ==
    <<BaseFile(merger)>>
    \o (IF mergeIn.environment # None
           /\ EnvFile(merger, Unwrap(mergeIn.environment)) \in DOMAIN components
        THEN <<EnvFile(merger, Unwrap(mergeIn.environment))>> ELSE <<>>)
    \o Flatten([i \in 1..Len(mergeIn.extensions) |->
          LET hits == {d \in 1..Len(merger.extensions_paths) :
                          ExtFile(merger.extensions_paths[d], mergeIn.extensions[i])
                             \in DOMAIN components}
          IN  IF hits = {} THEN <<>>
              ELSE <<ExtFile(merger.extensions_paths[CHOOSE d \in hits :
                                                        \A e \in hits : d <= e],
                             mergeIn.extensions[i])>>])

\* C14: for every target whose base file is there, the layers folded are the base
\* layer, then the environment layer if the target has an environment and its
\* file is present, then one layer per extension in the order of the extension
\* list, each from the first search directory containing it; an extension found
\* in no search directory contributes nothing and is not an error.
C14_LayersFoldedInResolverOrder ==
    (pc = "composed" /\ BaseFile(merger) \in DOMAIN components) =>
        /\ Unwrap(mergeOut).ok
        /\ Unwrap(mergeOut).value.m["volumes"].q
              = [i \in 1..Len(ExpectedLayers) |->
                    Scalar(LayerId(merger, mergeIn.environment, ExpectedLayers[i]))]

(***************************************************************************)
(* resolve_all_extensions on the direct extensions and combo names of a    *)
(* target, under registries whose lists overlap and repeat names.          *)
(***************************************************************************)
MaxDirect == 2
MaxComboRefs == 2

ResolveExtNames == {Name("auth"), Name("guard")}
ResolveRegistries ==
    {s @@ a :
        s \in {<<>>} \cup {Name("sec") :> e :
                 e \in {<<Name("auth"), Name("guard")>>, <<Name("guard"), Name("auth")>>,
                        <<Name("auth"), Name("auth")>>, <<Name("mail")>>}},
        a \in {<<>>} \cup {Name("alt") :> e :
                 e \in {<<Name("guard")>>, <<Name("mail"), Name("auth")>>}}}

\* one call of resolve_all_extensions
ResolveExtensions ==
    /\ pc = "resolve"
    /\ mergeOut' = Some(ResolveAllExtensions(config, mergeIn.direct, mergeIn.combo_names))
    /\ pc' = "resolved"
    /\ UNCHANGED <<config, combinations, planErr, idx, files, dirs, held, scanned,
                   backup, restoreLog, written, components, merger, mergeIn>>

InitResolve ==
    /\ \E cm \in ResolveRegistries :
          \E keys \in KeyOrders(cm) :
             config = Config(<<>>, <<>>, cm, keys, <<>>, FALSE, FALSE)
    /\ \E direct \in SeqsUpTo(ResolveExtNames, MaxDirect),
          names \in SeqsUpTo({Name("sec"), Name("alt")}, MaxComboRefs) :
          mergeIn = [direct |-> direct, combo_names |-> names]
    /\ mergeOut = None
    /\ pc = "resolve"
    /\ combinations = <<>>
    /\ planErr = None
    /\ idx = 0
    /\ files = <<>>
    /\ dirs = {}
    /\ held = None
    /\ scanned = {}
    /\ backup = NoBackup
    /\ restoreLog = <<>>
    /\ written = <<>>
    /\ components = <<>>
    /\ merger = NoMerger

SpecResolve == InitResolve /\ [][ResolveExtensions]_vars

\* the elements of xs in first-seen order: an element stays where no earlier
\* element equals it
FirstSeen(xs) ==
    Flatten([i \in 1..Len(xs) |->
                IF \E j \in 1..(i - 1) : xs[j] = xs[i] THEN <<>> ELSE <<xs[i]>>])

\* the direct extensions followed by the lists of the referenced combos
AllNamed ==
    mergeIn.direct
    \o Flatten([i \in 1..Len(mergeIn.combo_names) |->
                   config.combos[mergeIn.combo_names[i]]])

\* C15: the extension list resolved for a target has no duplicates and is in
\* first-seen order: the direct extensions in order, then the extensions of
\* each referenced combo in combo order, skipping every name already present.
C15_ExtensionsFirstSeenOrder ==
    (pc = "resolved" /\ Range(mergeIn.combo_names) \subseteq DOMAIN config.combos) =>
        /\ Unwrap(mergeOut).ok
        /\ Unwrap(mergeOut).extensions = FirstSeen(AllNamed)
        /\ \A i, j \in 1..Len(Unwrap(mergeOut).extensions) :
              i # j => Unwrap(mergeOut).extensions[i] # Unwrap(mergeOut).extensions[j]

\* the combo sec = [auth, guard] with auth also a direct extension gives [auth, guard]
C15_Witness ==
    /\ pc = "resolved"
    /\ mergeIn.direct = <<Name("auth")>>
    /\ mergeIn.combo_names = <<Name("sec")>>
    /\ Name("sec") \in DOMAIN config.combos
    /\ config.combos[Name("sec")] = <<Name("auth"), Name("guard")>>
    /\ Unwrap(mergeOut).extensions = <<Name("auth"), Name("guard")>>

(***************************************************************************)
(* Layout laws of the planner, on SpecPlan.                                *)
(***************************************************************************)
\* the number of variants (extensions and combos) of one environment
VariantCount(cfg, env) == Len(EnvExtensions(cfg, env)) + Len(EnvComboNames(cfg, env))

\* the base target of an environment under a prefix
BaseTarget(env, prefix) == BuildCombination(Some(env), <<>>, <<>>, prefix \o Name("base"))

\* one target per direct extension and one per combo of an environment,
\* each in the subfolder prefix \o name
VariantTargets(cfg, env, prefix) ==
    {BuildCombination(Some(env), <<x>>, <<>>, prefix \o x) :
        x \in Range(EnvExtensions(cfg, env))}
    \cup {BuildCombination(Some(env), cfg.combos[n], <<n>>, prefix \o n) :
            n \in Range(EnvComboNames(cfg, env))}

\* the number of targets of an environment that is not collapsed
SubfolderCount(cfg, env) ==
    VariantCount(cfg, env) + (IF EnvSkipBase(cfg, env) THEN 0 ELSE 1)

\* C16: with exactly one environment, zero variants and skip-base unset, the
\* planner returns exactly one target and its outputDir is the empty string.
C16_OneEnvironmentNoVariantsAtRoot ==
    (/\ pc = "planned"
     /\ Len(config.environments) = 1
     /\ VariantCount(config, config.environments[1]) = 0
     /\ ~EnvSkipBase(config, config.environments[1])) =>
        /\ Len(combinations) = 1
        /\ combinations[1].output_dir = EmptyStr

\* C17: with two or more environments each having zero variants, the planner
\* returns exactly one target per environment, with outputDir equal to the
\* environment name, that environment set, and no extensions or combos.
C17_EnvironmentsOnly ==
    (/\ pc = "planned"
     /\ Len(config.environments) >= 2
     /\ \A i \in 1..Len(config.environments) :
           VariantCount(config, config.environments[i]) = 0) =>
        /\ Len(combinations) = Len(config.environments)
        /\ \A i \in 1..Len(config.environments) :
              combinations[i] = BuildCombination(Some(config.environments[i]), <<>>, <<>>,
                                                 config.environments[i])

\* two environments without variants are planned as dev and prod
C17_Witness ==
    /\ pc = "planned"
    /\ config.environments = <<Name("dev"), Name("prod")>>
    /\ \A i \in 1..2 : VariantCount(config, config.environments[i]) = 0
    /\ OutputDirs(combinations) = <<Name("dev"), Name("prod")>>

C19_OneEnvironmentSubfolders ==
    (/\ pc = "planned"
     /\ Len(config.environments) = 1
     /\ VariantCount(config, config.environments[1]) >= 1
     /\ \/ VariantCount(config, config.environments[1]) > 1
        \/ ~EnvSkipBase(config, config.environments[1])) =>
        LET env == config.environments[1]
            skip == IF HasEnvConfig(config, env)
                       /\ config.envConfigs[env].skip_base_generation # None
                    THEN Unwrap(config.envConfigs[env].skip_base_generation)
                    ELSE config.skip_base_generation
        IN  /\ VariantTargets(config, env, EmptyStr) \subseteq Range(combinations)
            /\ BaseTarget(env, EmptyStr) \in Range(combinations) <=> ~skip
            /\ Range(combinations) \subseteq
                  VariantTargets(config, env, EmptyStr) \cup {BaseTarget(env, EmptyStr)}
            /\ Len(combinations) = VariantCount(config, env) + (IF skip THEN 0 ELSE 1)
            /\ \A i \in 1..Len(combinations) :
                  ~IsPrefix(env, combinations[i].output_dir)

\* one environment whose own flag overrides a global skip-base: base, the
\* extension and the combo each get an un-prefixed folder
C19_Witness ==
    /\ pc = "planned"
    /\ config.environments = <<Name("dev")>>
    /\ config.skip_base_generation
    /\ HasEnvConfig(config, Name("dev"))
    /\ config.envConfigs[Name("dev")].skip_base_generation = Some(FALSE)
    /\ OutputDirs(combinations) = <<Name("base"), Name("auth"), Name("sec")>>

\* the targets of one environment among several
NamespacedTargets(cfg, env) ==
    IF VariantCount(cfg, env) = 1 /\ EnvSkipBase(cfg, env)
    THEN {[t EXCEPT !.output_dir = env] : t \in VariantTargets(cfg, env, EmptyStr)}
    ELSE VariantTargets(cfg, env, env \o Slash)
         \cup (IF EnvSkipBase(cfg, env) THEN {} ELSE {BaseTarget(env, env \o Slash)})

\* C20: with two or more environments of which at least one has a variant,
\* every target's outputDir is namespaced by its environment: <env>/<variant>
\* for each extension or combo of that environment, <env> alone when that
\* environment has exactly one variant and skip-base is set for it, and the
\* base target <env>/base for exactly the environments whose skip-base flag is
\* not set.
C20_EnvironmentsNamespaced ==
    (/\ pc = "planned"
     /\ Len(config.environments) >= 2
     /\ \E i \in 1..Len(config.environments) :
           VariantCount(config, config.environments[i]) >= 1) =>
        /\ \A i \in 1..Len(config.environments) :
              /\ NamespacedTargets(config, config.environments[i]) \subseteq Range(combinations)
              /\ BaseTarget(config.environments[i], config.environments[i] \o Slash)
                    \in Range(combinations)
                 <=> ~EnvSkipBase(config, config.environments[i])
        /\ \A j \in 1..Len(combinations) :
              \E i \in 1..Len(config.environments) :
                 /\ combinations[j] \in NamespacedTargets(config, config.environments[i])
                 /\ \/ combinations[j].output_dir = config.environments[i]
                    \/ IsPrefix(config.environments[i] \o Slash, combinations[j].output_dir)
        /\ Len(combinations) =
              SumSeq([i \in 1..Len(config.environments) |->
                         IF VariantCount(config, config.environments[i]) = 1
                            /\ EnvSkipBase(config, config.environments[i])
                         THEN 1
                         ELSE SubfolderCount(config, config.environments[i])])

\* dev collapses to its single extension while prod keeps a base folder
C20_Witness ==
    /\ pc = "planned"
    /\ config.environments = <<Name("dev"), Name("prod")>>
    /\ VariantCount(config, Name("dev")) = 1
    /\ EnvSkipBase(config, Name("dev"))
    /\ ~EnvSkipBase(config, Name("prod"))
    /\ Name("dev") \in Range(OutputDirs(combinations))
    /\ Name("prod") \o Slash \o Name("base") \in Range(OutputDirs(combinations))

\* the targets of a configuration without environments, each in the folder
\* of its extension or combo name
GlobalTargets(cfg) ==
    {BuildCombination(None, <<x>>, <<>>, x) : x \in Range(cfg.extensions)}
    \cup {BuildCombination(None, cfg.combos[n], <<n>>, n) : n \in DOMAIN cfg.combos}

UnregisteredRefs ==
    {n \in UNION {Range(config.envConfigs[e].combos) : e \in DOMAIN config.envConfigs} :
        n \notin DOMAIN config.combos}

\* C22: if a combo name referenced for an environment is not a registered
\* combo, planning fails with a ComboNotFound error that carries the unknown
\* combo name and the list of registered combo names, and it fails before any
\* filesystem mutation: the build root is neither scanned, cleaned nor written,
\* in the failing step and ever after.
C22_UnknownComboFailsBeforeMutation ==
    [][/\ (pc = "start" /\ UnregisteredRefs # {}) =>
              /\ pc' = "failed"
              /\ planErr' # None
              /\ Unwrap(planErr').combo_name \in UnregisteredRefs
              /\ Range(Unwrap(planErr').available_combos) = DOMAIN config.combos
              /\ UNCHANGED <<files, dirs, held, scanned, backup, restoreLog, written>>
       /\ UnregisteredRefs # {} =>
              UNCHANGED <<files, dirs, held, scanned, backup, restoreLog, written>>]_vars

\* the planning of a configuration whose environment refers to the unknown combo
\* sec has failed over an old build root that is still there
C22_Witness ==
    /\ pc = "failed"
    /\ planErr # None
    /\ Unwrap(planErr).combo_name = Name("sec")
    /\ Name("sec") \notin DOMAIN config.combos
    /\ files # <<>>
    /\ ScanEnvFiles(files) # {}

\* the step of the run that processes one target
TargetStep == pc = "building" /\ idx <= Len(combinations)

\* the base layer cannot be loaded
BaseLayerBad ==
    \/ BaseFile(merger) \notin DOMAIN components
    \/ ~components[BaseFile(merger)].parsed

CleanStep == pc = "planned"

\* the step of the run in which restore_env_files is called
RestoreCall == pc = "building" /\ idx > Len(combinations)

\* C24: the reconciler steps are strictly ordered within a run: Scan reads the
\* build root before Cleanup touches it, Cleanup has completed before any
\* target's artifact is written, and Restore starts only after every target's
\* artifacts have been written; with preservation disabled no file is scanned,
\* held, restored or backed up, while Cleanup of the build root still happens.
C24_ReconcilerStepsOrdered ==
    [][/\ CleanStep =>
              /\ written = <<>> /\ restoreLog = <<>> /\ backup = NoBackup
              /\ scanned = {} /\ held = None
              /\ scanned' \subseteq ScanEnvFiles(files)
              /\ (config.preserve_env_files /\ pc' = "building") =>
                    scanned' = ScanEnvFiles(files)
              /\ pc' = "building" => (files' = <<>> /\ dirs' = {EmptyStr})
       /\ (TargetStep \/ written' # written) =>
              /\ pc = "building" /\ idx >= 1
              /\ scanned' = scanned /\ held' = held
              /\ restoreLog' = <<>> /\ backup' = NoBackup
              /\ \A p \in DOMAIN files : p \in DOMAIN files'
       /\ (restoreLog' # restoreLog \/ backup' # backup \/ pc' = "done") =>
              /\ RestoreCall
              /\ Len(written) = Len(combinations)
              /\ written' = written
       /\ ~config.preserve_env_files =>
              /\ scanned' = {} /\ held' = None
              /\ restoreLog' = <<>> /\ backup' = NoBackup
              /\ RestoreCall => (files' = files /\ pc' = "done")]_vars

\* a run with preservation that scanned, cleaned, wrote two targets and restored
C24_Witness ==
    /\ pc = "done"
    /\ config.preserve_env_files
    /\ scanned # {}
    /\ Len(combinations) >= 2
    /\ Len(written) = Len(combinations)
    /\ \E p \in DOMAIN restoreLog : restoreLog[p] = "Restored"

\* the file at path p was written by a target of this run: a manifest, or an
\* additional file copied next to it
WrittenByTarget(w, p) ==
    \E i \in 1..Len(w) : p = w[i].path \/ p = PathJoin(w[i].dir, EnvFileName)

\* the file at path p is a held override file written back by Restore
WrittenBack(log, p) == p \in DOMAIN log /\ log[p] = "Restored"

NoSourceEnvFile == \A p \in DOMAIN components : FileNameStr(p) # EnvFileName

\* the override file lies in a directory where the run writes a manifest
NextToManifest(f) == \E i \in 1..Len(written) : written[i].dir = ParentStr(f.original_path)

\* C26: rebuild stability: an override file placed in a directory where a run
\* of this configuration and these sources writes a manifest, the sources
\* supplying no file of that name, is restored by the next successful run to
\* the same path with the same content, for every planner case.
C26_RebuildKeepsOverride ==
    (pc = "done" /\ config.preserve_env_files /\ NoSourceEnvFile) =>
        \A f \in scanned :
           (NextToManifest(f) /\ Outcome(restoreLog, f) # "Err") =>
               /\ WasRestored(f)
               /\ InBuildRoot(files, f)

\* C27: every environment in the configured environment list is the
\* environment of at least one target returned by the planner, for every
\* combination of per-environment variant counts and skip-base flags.
C27_EveryEnvironmentPlanned ==
    pc = "planned" =>
        \A i \in 1..Len(config.environments) :
           \E j \in 1..Len(combinations) :
              combinations[j].environment = Some(config.environments[i])

FailedScanOutcomes ==
    {CleanBuildDirectory(TRUE, files, dirs, order, "scan_failed") :
        order \in ScanOrders(files)}

\* C29: if Scan fails, clean_build_directory returns the error without
\* performing Cleanup: the build root and every file in it are left unchanged,
\* nothing is held, and no target is built.
C29_FailedScanLeavesBuildRoot ==
    [][/\ (CleanStep /\ config.preserve_env_files /\ EmptyStr \in dirs) =>
              /\ \A r \in FailedScanOutcomes :
                    /\ ~r.ok
                    /\ r.files = files /\ r.dirs = dirs
                    /\ r.held = None
              /\ (pc' = "failed" /\ held' = None /\ ScanEnvFiles(files) # {}) =>
                    (files' = files /\ dirs' = dirs)
       /\ (CleanStep /\ pc' = "failed") => (written' = <<>> /\ idx' = 0)
       /\ (pc = "failed" /\ idx = 0) => written' = <<>>]_vars

\* clean_build_directory failed in the scan: the override files of the old
\* build root are still there, none is held and no target was built
C29_Witness ==
    /\ pc = "failed"
    /\ combinations # <<>>
    /\ idx = 0
    /\ config.preserve_env_files
    /\ ScanEnvFiles(files) # {}
    /\ held = None
    /\ written = <<>>

\* the held files that restore_env_files did not write back
Unrestored == {f \in scanned : ~WasRestored(f)}

\* C30: in one backup, files with distinct original relative paths are stored
\* under distinct backup file names, so the number of content files in the
\* backup directory equals the number of unrestored files and none overwrites
\* another.
C30_BackupNamesDistinct ==
    RestoreReturnedOk =>
        /\ \A f, g \in Unrestored :
              f.original_path # g.original_path =>
                 SafeFilename(f.original_path) # SafeFilename(g.original_path)
        /\ Cardinality(DOMAIN backup.contentFiles) = Cardinality(Unrestored)

=============================================================================
